---- MODULE Spec2Model ----
(***************************************************************************)
(* Model of src/index.tsx: the goal dashboard's value parser (parseValue), *)
(* status classifier (getStatus, getSimplifiedStatus), data normalizer     *)
(* (initializeData) and the filter/render cycle (filterAndRender,          *)
(* renderAllYearCharts, renderGoals).                                      *)
(*                                                                         *)
(* JavaScript strings are sequences of one-character strings, so that      *)
(* toLowerCase, includes, replace, trim and parseFloat are computed on the *)
(* text.  A JavaScript value is a tagged record (undefined, null, string,  *)
(* number).  A number is a decimal m / 10^s standing for the binary64      *)
(* nearest to it; the one arithmetic operation of the code, the product    *)
(* esperadoNum * 0.9, is computed in binary64 with round-to-nearest-even.  *)
(***************************************************************************)
EXTENDS Integers, Sequences, FiniteSets, TLC

(***************************************************************************)
(* JavaScript values                                                       *)
(***************************************************************************)
Undefined == [t |-> "undefined"]
Null      == [t |-> "null"]
Str(s)    == [t |-> "string", v |-> s]

RECURSIVE Pow10(_)
Pow10(n) == IF n = 0 THEN 1 ELSE 10 * Pow10(n - 1)

\* the decimal m / 10^s in lowest scale (12.50 and 12.5 are one number)
RECURSIVE Norm(_, _)
Norm(m, s) == IF s > 0 /\ m % 10 = 0 THEN Norm(m \div 10, s - 1)
              ELSE [nan |-> FALSE, m |-> m, s |-> s]

NaN == [nan |-> TRUE, m |-> 0, s |-> 0]
Dec(m, s) == Norm(m, s)
Num(m, s) == [t |-> "number", n |-> Dec(m, s)]

isNaN(x) == x.nan

\* a < b, a = b on numbers (false when either is NaN, as in JavaScript)
NumLT(a, b) == /\ ~a.nan /\ ~b.nan
               /\ a.m * Pow10(b.s) < b.m * Pow10(a.s)
NumEQ(a, b) == /\ ~a.nan /\ ~b.nan
               /\ a.m * Pow10(b.s) = b.m * Pow10(a.s)
NumGT(a, b) == NumLT(b, a)
NumGE(a, b) == NumGT(a, b) \/ NumEQ(a, b)

(***************************************************************************)
(* String primitives                                                       *)
(***************************************************************************)
UpperLetters == <<"A","B","C","D","E","F","G","H","I","J","K","L","M",
                  "N","O","P","Q","R","S","T","U","V","W","X","Y","Z">>
LowerLetters == <<"a","b","c","d","e","f","g","h","i","j","k","l","m",
                  "n","o","p","q","r","s","t","u","v","w","x","y","z">>

IndexIn(c, letters) == CHOOSE i \in 1..Len(letters) : letters[i] = c
IsIn(c, letters) == \E i \in 1..Len(letters) : letters[i] = c

\* the case mappings of the ASCII letters (other characters are unchanged)
LowerOf == [c \in { UpperLetters[i] : i \in 1..26 } |-> LowerLetters[IndexIn(c, UpperLetters)]]
UpperOf == [c \in { LowerLetters[i] : i \in 1..26 } |-> UpperLetters[IndexIn(c, LowerLetters)]]

toLowerCase(s) ==
    [i \in 1..Len(s) |-> IF s[i] \in DOMAIN LowerOf THEN LowerOf[s[i]] ELSE s[i]]
toUpperCase(s) ==
    [i \in 1..Len(s) |-> IF s[i] \in DOMAIN UpperOf THEN UpperOf[s[i]] ELSE s[i]]

includes(s, sub) ==
    \E i \in 0..(Len(s) - Len(sub)) : SubSeq(s, i + 1, i + Len(sub)) = sub

WhiteSpace == {" ", "\t", "\n"}

RECURSIVE trimStart(_)
trimStart(s) == IF s # <<>> /\ Head(s) \in WhiteSpace THEN trimStart(Tail(s)) ELSE s
RECURSIVE trimEnd(_)
trimEnd(s) == IF s # <<>> /\ s[Len(s)] \in WhiteSpace
              THEN trimEnd(SubSeq(s, 1, Len(s) - 1)) ELSE s
trim(s) == trimEnd(trimStart(s))

\* String.prototype.replace with a string pattern: the first occurrence only
replace(s, pat, rep) ==
    IF includes(s, pat)
    THEN LET i == CHOOSE k \in 0..(Len(s) - Len(pat)) :
                     /\ SubSeq(s, k + 1, k + Len(pat)) = pat
                     /\ \A j \in 0..(k - 1) : SubSeq(s, j + 1, j + Len(pat)) # pat
         IN  SubSeq(s, 1, i) \o rep \o SubSeq(s, i + Len(pat) + 1, Len(s))
    ELSE s

Digits == <<"0","1","2","3","4","5","6","7","8","9">>
DigitOf == [c \in { Digits[i] : i \in 1..10 } |-> IndexIn(c, Digits) - 1]
IsDigit(c) == c \in DOMAIN DigitOf
DigitVal(c) == DigitOf[c]

\* number of leading digits of s
RECURSIVE DigitRun(_)
DigitRun(s) == IF s # <<>> /\ IsDigit(Head(s)) THEN 1 + DigitRun(Tail(s)) ELSE 0

\* value of a sequence of digits
RECURSIVE DigitsVal(_)
DigitsVal(s) == IF s = <<>> THEN 0
                ELSE 10 * DigitsVal(SubSeq(s, 1, Len(s) - 1)) + DigitVal(s[Len(s)])

\* decimal digits of a natural number
RECURSIVE NatToString(_)
NatToString(n) == IF n < 10 THEN <<Digits[n + 1]>>
                  ELSE NatToString(n \div 10) \o <<Digits[(n % 10) + 1]>>

Drop(s, n) == SubSeq(s, n + 1, Len(s))

(***************************************************************************)
(* String(value) and parseFloat                                            *)
(***************************************************************************)
\* Number::toString of a decimal within the range printed without exponent
Abs(n) == IF n < 0 THEN -n ELSE n

RECURSIVE PadZeros(_, _)
PadZeros(s, n) == IF Len(s) < n THEN PadZeros(<<"0">> \o s, n) ELSE s

NumberToString(n) ==
    IF n.nan THEN <<"N","a","N">>
    ELSE LET a  == Abs(n.m)
             ip == NatToString(a \div Pow10(n.s))
             fp == PadZeros(NatToString(a % Pow10(n.s)), n.s)
         IN  (IF n.m < 0 THEN <<"-">> ELSE <<>>)
             \o ip \o (IF n.s > 0 THEN <<".">> \o fp ELSE <<>>)

\* String(value)
String(value) ==
    CASE value.t = "undefined" -> <<"u","n","d","e","f","i","n","e","d">>
      [] value.t = "null"      -> <<"n","u","l","l">>
      [] value.t = "number"    -> NumberToString(value.n)
      [] OTHER                 -> value.v

\* parseFloat: leading white space is skipped, then the longest prefix that
\* is a decimal literal (sign, digits, fraction, exponent) is converted;
\* NaN when there is none.  (The literal "Infinity" is outside the inputs.)
HeadIn(s, chars) == s # <<>> /\ Head(s) \in chars

\* the value of mantissa sm with nf fraction digits and exponent ex
pfResult(sm, nf, eneg, ex) ==
    IF eneg THEN Dec(sm, nf + ex)
    ELSE IF ex >= nf THEN Dec(sm * Pow10(ex - nf), 0)
    ELSE Dec(sm, nf - ex)

\* t5: what follows the sign of the exponent
pfExpDigits(sm, nf, eneg, t5) ==
    pfResult(sm, nf, eneg, DigitsVal(SubSeq(t5, 1, DigitRun(t5))))

\* t3: what follows the mantissa
pfExponent(sm, nf, t3) ==
    IF HeadIn(t3, {"e", "E"})
    THEN pfExpDigits(sm, nf, HeadIn(Tail(t3), {"-"}),
                     IF HeadIn(Tail(t3), {"+", "-"}) THEN Tail(Tail(t3)) ELSE Tail(t3))
    ELSE Dec(sm, nf)

\* t1: what follows the sign; ni, nf: digits before and after the point
pfMantissa(t1, neg, ni, nf) ==
    IF ni = 0 /\ nf = 0 THEN NaN
    ELSE pfExponent((IF neg THEN -1 ELSE 1)
                       * DigitsVal(SubSeq(t1, 1, ni) \o SubSeq(t1, ni + 2, ni + 1 + nf)),
                    nf,
                    IF HeadIn(Drop(t1, ni), {"."}) THEN Drop(t1, ni + 1 + nf)
                    ELSE Drop(t1, ni))

pfFraction(t1, neg, ni) ==
    pfMantissa(t1, neg, ni,
               IF HeadIn(Drop(t1, ni), {"."}) THEN DigitRun(Drop(t1, ni + 1)) ELSE 0)

pfDigits(t1, neg) == pfFraction(t1, neg, DigitRun(t1))

pfSign(t0) ==
    pfDigits(IF HeadIn(t0, {"+", "-"}) THEN Tail(t0) ELSE t0, HeadIn(t0, {"-"}))

parseFloat(str) == pfSign(trimStart(str))

(***************************************************************************)
(* binary64 arithmetic for the product esperadoNum * 0.9.  An unsigned     *)
(* integer is a sequence of limbs, least significant first, in base 2^14.  *)
(***************************************************************************)
LimbBits == 14
BASE == 16384

RECURSIVE Pow2(_)
Pow2(n) == IF n = 0 THEN 1 ELSE 2 * Pow2(n - 1)

RECURSIVE BigStrip(_)
BigStrip(a) == IF a # <<>> /\ a[Len(a)] = 0 THEN BigStrip(SubSeq(a, 1, Len(a) - 1)) ELSE a

RECURSIVE BigFromNat(_)
BigFromNat(n) == IF n = 0 THEN <<>> ELSE <<n % BASE>> \o BigFromNat(n \div BASE)

RECURSIVE BigAddC(_, _, _)
BigAddC(a, b, c) ==
    IF a = <<>> /\ b = <<>> THEN (IF c = 0 THEN <<>> ELSE <<c>>)
    ELSE LET x == (IF a = <<>> THEN 0 ELSE Head(a))
                  + (IF b = <<>> THEN 0 ELSE Head(b)) + c
         IN  <<x % BASE>> \o BigAddC(IF a = <<>> THEN <<>> ELSE Tail(a),
                                     IF b = <<>> THEN <<>> ELSE Tail(b),
                                     x \div BASE)
BigAdd(a, b) == BigAddC(a, b, 0)

\* a * k for a limb-sized k
RECURSIVE BigMulSmallC(_, _, _)
BigMulSmallC(a, k, c) ==
    IF a = <<>> THEN BigFromNat(c)
    ELSE LET x == Head(a) * k + c
         IN  <<x % BASE>> \o BigMulSmallC(Tail(a), k, x \div BASE)

RECURSIVE BigMul(_, _)
BigMul(a, b) ==
    IF a = <<>> THEN <<>>
    ELSE BigStrip(BigAdd(BigMulSmallC(b, Head(a), 0), <<0>> \o BigMul(Tail(a), b)))

\* quotient and remainder of a by a small d
RECURSIVE BigDivSmall(_, _)
BigDivSmall(a, d) ==
    IF a = <<>> THEN [q |-> <<>>, r |-> 0]
    ELSE LET hi  == BigDivSmall(Tail(a), d)
             cur == hi.r * BASE + Head(a)
         IN  [q |-> <<cur \div d>> \o hi.q, r |-> cur % d]

RECURSIVE NatBitLen(_)
NatBitLen(n) == IF n = 0 THEN 0 ELSE 1 + NatBitLen(n \div 2)

\* number of significant bits of a stripped integer
BigBitLen(a) == IF a = <<>> THEN 0
                ELSE (Len(a) - 1) * LimbBits + NatBitLen(a[Len(a)])

BigLimb(a, i) == IF i <= Len(a) THEN a[i] ELSE 0
BigBit(a, i) == (BigLimb(a, (i \div LimbBits) + 1) \div Pow2(i % LimbBits)) % 2

\* some bit below bit i is set
BigAnyBelow(a, i) ==
    \/ \E j \in 1..(i \div LimbBits) : BigLimb(a, j) # 0
    \/ BigLimb(a, (i \div LimbBits) + 1) % Pow2(i % LimbBits) # 0

\* floor(a / 2^d)
BigShiftRight(a, d) ==
    LET k == d \div LimbBits
        b == d % LimbBits
        x == Drop(a, k)
    IN  BigStrip([j \in 1..Len(x) |->
                    (x[j] \div Pow2(b))
                    + (BigLimb(x, j + 1) % Pow2(b)) * Pow2(LimbBits - b)])

\* -1, 0, 1 as a < b, a = b, a > b (stripped integers)
RECURSIVE BigCmp(_, _)
BigCmp(a, b) ==
    IF Len(a) # Len(b) THEN (IF Len(a) < Len(b) THEN -1 ELSE 1)
    ELSE IF a = <<>> THEN 0
    ELSE IF a[Len(a)] # b[Len(b)] THEN (IF a[Len(a)] < b[Len(b)] THEN -1 ELSE 1)
    ELSE BigCmp(SubSeq(a, 1, Len(a) - 1), SubSeq(b, 1, Len(b) - 1))

MantBits == 53

\* a binary64: sign, 53-bit significand M and exponent E, the value M * 2^E
DoubleZero == [zero |-> TRUE, neg |-> FALSE, M |-> <<>>, E |-> 0]

\* round Q * 2^e0 (plus a nonzero tail when sticky) to nearest, ties to even
RoundToDouble(neg, Q, sticky, e0) ==
    LET d   == BigBitLen(Q) - MantBits
        q   == BigShiftRight(Q, d)
        rb  == BigBit(Q, d - 1)
        st  == sticky \/ BigAnyBelow(Q, d - 1)
        up  == rb = 1 /\ (st \/ BigBit(q, 0) = 1)
        M1  == IF up THEN BigStrip(BigAdd(q, <<1>>)) ELSE q
        ovf == BigBitLen(M1) > MantBits
    IN  [zero |-> FALSE, neg |-> neg,
         M |-> IF ovf THEN BigShiftRight(M1, 1) ELSE M1,
         E |-> IF ovf THEN e0 + d + 1 ELSE e0 + d]

ScaleLimbs == 5

\* the binary64 nearest to the decimal n (what parseFloat and a numeric
\* literal denote)
toDouble(n) ==
    IF n.m = 0 THEN DoubleZero
    ELSE LET big == [i \in 1..ScaleLimbs |-> 0] \o BigFromNat(Abs(n.m))
             dv  == BigDivSmall(big, Pow10(n.s))
         IN  RoundToDouble(n.m < 0, BigStrip(dv.q), dv.r # 0,
                           -(ScaleLimbs * LimbBits))

\* x * y in binary64
DoubleMul(x, y) ==
    IF x.zero \/ y.zero THEN DoubleZero
    ELSE RoundToDouble(x.neg # y.neg, BigMul(x.M, y.M), FALSE, x.E + y.E)

\* magnitude comparison of nonzero doubles
MagCmp(x, y) == IF x.E # y.E THEN (IF x.E < y.E THEN -1 ELSE 1) ELSE BigCmp(x.M, y.M)

\* x < y in binary64
DoubleLT(x, y) ==
    IF x.zero THEN (~y.zero /\ ~y.neg)
    ELSE IF y.zero THEN x.neg
    ELSE IF x.neg # y.neg THEN x.neg
    ELSE IF x.neg THEN MagCmp(x, y) = 1
    ELSE MagCmp(x, y) = -1

\* resultadoNum >= esperadoNum * 0.9, as the build evaluates it
GETimes09(resultadoNum, esperadoNum) ==
    ~DoubleLT(toDouble(resultadoNum), DoubleMul(toDouble(esperadoNum), toDouble(Dec(9, 1))))

(***************************************************************************)
(* Value parser and status classifier                                      *)
(***************************************************************************)
s_na        == <<"n","a">>
s_sn        == <<"s","/","n">>
s_andamento == <<"a","n","d","a","m","e","n","t","o">>
s_apurando  == <<"a","p","u","r","a","n","d","o">>
s_mensurado == <<"m","e","n","s","u","r","a","d","o">>

\* parseValue without the test for the placeholder tokens
parseValueNoTokens(value) ==
    IF value = Undefined \/ value = Null THEN NaN
    ELSE LET strValue == String(value)
         IN  IF \/ toLowerCase(strValue) = s_na
                \/ trim(strValue) = <<>>
                \/ toLowerCase(strValue) = s_sn
             THEN NaN
             ELSE parseFloat(trim(replace(replace(replace(strValue, <<"%">>, <<>>),
                                                  <<",">>, <<".">>),
                                          <<"'">>, <<>>)))

parseValue(value) ==
    IF value = Undefined \/ value = Null THEN NaN
    ELSE LET strValue == String(value)
             lower    == toLowerCase(strValue)
         IN  IF \/ lower = s_na
                \/ trim(strValue) = <<>>
                \/ includes(lower, s_andamento)
                \/ includes(lower, s_apurando)
                \/ includes(lower, s_mensurado)
                \/ lower = s_sn
             THEN NaN
             ELSE LET cleanedValue ==
                          trim(replace(replace(replace(strValue, <<"%">>, <<>>),
                                               <<",">>, <<".">>),
                                       <<"'">>, <<>>))
                  IN  parseFloat(cleanedValue)

\* status labels (the source's accented texts, written in ASCII)
Superada       == [text |-> "Superada", color |-> "green"]
Alcancada      == [text |-> "Alcancada", color |-> "green"]
Parcialmente   == [text |-> "Parcialmente Alcancada", color |-> "orange"]
NaoAlcancada   == [text |-> "Nao Alcancada", color |-> "red"]
EmAndamento    == [text |-> "Em Andamento", color |-> "yellow"]
NaoAplicavel   == [text |-> "Nao Aplicavel", color |-> "gray"]
\* goal.polaridade.toUpperCase() on a goal without polaridade
ThrownTypeError == [text |-> "TypeError", color |-> "thrown"]

s_MENOR == <<"M","E","N","O","R">>

\* the placeholder test without "apurando"
isPlaceholderResultNoApurando(result) ==
    LET resultadoVal == toLowerCase(String(result))
    IN  \/ result = Undefined \/ result = Null
        \/ includes(resultadoVal, s_andamento)
        \/ resultadoVal = s_sn
        \/ resultadoVal = s_na
        \/ includes(resultadoVal, s_mensurado)

\* the placeholder test on the raw result (line 159)
isPlaceholderResult(result) ==
    LET resultadoVal == toLowerCase(String(result))
    IN  \/ result = Undefined \/ result = Null
        \/ includes(resultadoVal, s_andamento)
        \/ includes(resultadoVal, s_apurando)
        \/ resultadoVal = s_sn
        \/ resultadoVal = s_na
        \/ includes(resultadoVal, s_mensurado)

\* the MENOR branch with a 10% tolerance tier
statusMenorWithPartial(resultadoNum, esperadoNum) ==
    IF NumLT(resultadoNum, esperadoNum) THEN Superada
    ELSE IF NumEQ(resultadoNum, esperadoNum) THEN Alcancada
    ELSE IF 9 * resultadoNum.m * Pow10(esperadoNum.s)
              <= 10 * esperadoNum.m * Pow10(resultadoNum.s) THEN Parcialmente
    ELSE NaoAlcancada

\* the MENOR branch (lines 172-174)
statusMenor(resultadoNum, esperadoNum) ==
    IF NumLT(resultadoNum, esperadoNum) THEN Superada
    ELSE IF NumEQ(resultadoNum, esperadoNum) THEN Alcancada
    ELSE NaoAlcancada

\* the default branch with the color of the 90% tier left yellow
statusMaiorYellowPartial(resultadoNum, esperadoNum) ==
    IF NumGT(resultadoNum, esperadoNum) THEN Superada
    ELSE IF NumGE(resultadoNum, esperadoNum) THEN Alcancada
    ELSE IF GETimes09(resultadoNum, esperadoNum)
         THEN [text |-> "Parcialmente Alcancada", color |-> "yellow"]
    ELSE NaoAlcancada

\* the default branch with the 90% tier taken below a negative target
statusMaiorBandBelow(resultadoNum, esperadoNum) ==
    IF NumGT(resultadoNum, esperadoNum) THEN Superada
    ELSE IF NumGE(resultadoNum, esperadoNum) THEN Alcancada
    ELSE IF esperadoNum.m < 0
            /\ 10 * resultadoNum.m * Pow10(esperadoNum.s)
                  >= 11 * esperadoNum.m * Pow10(resultadoNum.s) THEN Parcialmente
    ELSE IF GETimes09(resultadoNum, esperadoNum) THEN Parcialmente
    ELSE NaoAlcancada

\* the default (MAIOR) branch (lines 176-179)
statusMaior(resultadoNum, esperadoNum) ==
    IF NumGT(resultadoNum, esperadoNum) THEN Superada
    ELSE IF NumGE(resultadoNum, esperadoNum) THEN Alcancada
    ELSE IF GETimes09(resultadoNum, esperadoNum) THEN Parcialmente
    ELSE NaoAlcancada

\* the comparison with NaN read as zero
statusOfParsedNaNAsZero(goal, resultadoNum, esperadoNum) ==
    LET r == IF isNaN(resultadoNum) THEN Dec(0, 0) ELSE resultadoNum
        e == IF isNaN(esperadoNum) THEN Dec(0, 0) ELSE esperadoNum
    IN  IF goal.polaridade.t # "string" THEN ThrownTypeError
        ELSE IF toUpperCase(goal.polaridade.v) = s_MENOR
             THEN statusMenor(r, e)
             ELSE statusMaior(r, e)

\* the polarity compared without folding its case
statusOfParsedCaseSensitive(goal, resultadoNum, esperadoNum) ==
    IF isNaN(esperadoNum) \/ isNaN(resultadoNum) THEN NaoAplicavel
    ELSE IF goal.polaridade.t # "string" THEN ThrownTypeError
    ELSE IF goal.polaridade.v = s_MENOR
         THEN statusMenor(resultadoNum, esperadoNum)
         ELSE statusMaior(resultadoNum, esperadoNum)

\* lines 162-180: what getStatus does once the result is not a placeholder
statusOfParsed(goal, resultadoNum, esperadoNum) ==
    IF isNaN(esperadoNum) \/ isNaN(resultadoNum) THEN NaoAplicavel
    ELSE IF goal.polaridade.t # "string" THEN ThrownTypeError
    ELSE IF toUpperCase(goal.polaridade.v) = s_MENOR
         THEN statusMenor(resultadoNum, esperadoNum)
         ELSE statusMaior(resultadoNum, esperadoNum)

getStatus(goal, result, expected) ==
    IF isPlaceholderResult(result) THEN EmAndamento
    ELSE statusOfParsed(goal, parseValue(result), parseValue(expected))

\* the simplification without the default case
getSimplifiedStatusNoDefault(detailedStatusText) ==
    CASE detailedStatusText \in {"Superada", "Alcancada"} -> "Alcancada"
      [] detailedStatusText \in {"Parcialmente Alcancada", "Nao Alcancada"} -> "Nao Alcancada"
      [] OTHER -> detailedStatusText

\* the simplification with the partial tier counted as achieved
getSimplifiedStatusPartialAchieved(detailedStatusText) ==
    CASE detailedStatusText \in {"Superada", "Alcancada", "Parcialmente Alcancada"} -> "Alcancada"
      [] detailedStatusText \in {"Nao Alcancada"} -> "Nao Alcancada"
      [] OTHER -> "Outro"

\* lines 183-194
getSimplifiedStatus(detailedStatusText) ==
    CASE detailedStatusText \in {"Superada", "Alcancada"} -> "Alcancada"
      [] detailedStatusText \in {"Parcialmente Alcancada", "Nao Alcancada"} -> "Nao Alcancada"
      [] OTHER -> "Outro"

(***************************************************************************)
(* Inputs of the parser and the classifier                                 *)
(***************************************************************************)
MaxInt   == 14     \* results and expected values range up to MaxInt
NegRange == 2      \* and down to -NegRange

\* the text of a number as the dataset writes it, with a decimal comma
commaText(n) == replace(NumberToString(n), <<".">>, <<",">>)

\* texts the dataset uses for results that are not (only) numbers
PlaceholderTexts ==
    { <<"S","/","N">>, <<"s","/","n">>, <<"N","A">>, <<"n","a">>, <<"N","a">>, <<"E","m"," ","a","n","d","a","m","e","n","t","o">>, <<"A","N","D","A","M","E","N","T","O">>,
      <<"A","p","u","r","a","n","d","o">>, <<"a","p","u","r","a","n","d","o"," ","(","8","0","%",")">>, <<"8","0","%"," ","a","p","u","r","a","n","d","o">>, <<"N","a","o"," ","m","e","n","s","u","r","a","d","o">>,
      <<"5","0"," ","e","m"," ","a","n","d","a","m","e","n","t","o">>, <<"9"," ","(","m","e","n","s","u","r","a","d","o",")">> }
OtherTexts ==
    { <<>>, <<" ">>, <<"S","/","N"," ">>, <<" ","n","a">>, <<"N","/","A">>, <<"g","a","r","b","a","g","e">>, <<"1","2","a","b","c">>, <<"1","2",",","5","%">>, <<"7">>, <<"'","3","'">>,
      <<"'","'","3">>, <<"1","'","2","'","3">>, <<"3","'">>, <<"8","0","%"," ","(","p","a","r","c","i","a","l",")">>, <<"1",".","2",".","3">>, <<" ","7"," ">>, <<"7","%">>, <<"-">>, <<"%","5">>,
      <<"1",",","2",",","3">>, <<"5","%","%">>, <<"1","2",".","5">>, <<",","5">>, <<"5",",">>, <<"+","4">> }

ResultValues ==
    {Undefined, Null}
    \cup { Str(commaText(Dec(m, 1))) : m \in (-10 * NegRange)..(10 * MaxInt) }
    \cup { Num(m, 0) : m \in {-1, 0, 7, 13} }
    \cup { Num(m, 1) : m \in {117, 125} }
    \cup { Str(t) : t \in PlaceholderTexts \cup OtherTexts }

ExpectedValues ==
    {Undefined}
    \cup { Str(NumberToString(Dec(i, 0))) : i \in (-NegRange)..MaxInt }
    \cup { Num(m, 0) : m \in {0, 13} }
    \cup { Str(t) : t \in { <<>>, <<"N","/","A">>, <<"S","/","N">>, <<"a","p","u","r","a","n","d","o">>, <<"1","2",",","5","%">>, <<"g","a","r","b","a","g","e">> } }

PolaridadeValues ==
    {Undefined} \cup { Str(t) : t \in { <<"m","a","i","o","r">>, <<"M","a","i","o","r">>, <<"m","e","n","o","r">>, <<"M","E","N","O","R">>, <<>>,
                                        <<"M","e","n","o","r">>, <<"m","e","n","o","r"," ">> } }

(***************************************************************************)
(* The classifier called on one (goal, result, expected)                   *)
(***************************************************************************)
VARIABLES goal, result, expected, numericValue, statusInfo, simplified, returned

cvars == <<goal, result, expected, numericValue, statusInfo, simplified, returned>>

\* the page: the raw dataset, the module state of lines 49-51 and the DOM
\* elements of lines 35-44 that the handlers read and write
VARIABLES dataSets, activeData, currentFilteredData, yearCharts,
          searchInput, yearFilter, diretrizFilter, objetivoFilter,
          quadrimestreFilter, statusFilter, diretrizOptions, objetivoOptions,
          goalsGrid, noResults, loaded

pvars == <<dataSets, activeData, currentFilteredData, yearCharts,
           searchInput, yearFilter, diretrizFilter, objetivoFilter,
           quadrimestreFilter, statusFilter, diretrizOptions, objetivoOptions,
           goalsGrid, noResults, loaded>>

\* the goal modal: its visibility (line 716), the content of modalWrapper
\* (lines 620, 659-715) with the elements the handlers look up by id, the AI
\* calls in flight (line 367), the last call of generateActionPlan and the
\* last AI call that settled (lines 431, 469) with what it settled with
VARIABLES modal, modalWrapper, analysisBtnDisabled, analysisContent,
          actionPlanBtn, actionPlanContainer, actionPlanContent,
          pending, lastActionPlan, settled

mvars == <<modal, modalWrapper, analysisBtnDisabled, analysisContent,
           actionPlanBtn, actionPlanContainer, actionPlanContent,
           pending, lastActionPlan, settled>>

vars == <<cvars, pvars, mvars>>

NoContent == [kind |-> "empty"]
NoText == [kind |-> "none"]
\* the action-plan button as the template of line 710 creates it
FreshActionPlanBtn == [hidden |-> TRUE, disabled |-> FALSE, analysisText |-> NoText]

\* the modal before any goal has been opened
ModalIdle ==
    /\ modal = "hidden"
    /\ modalWrapper = NoContent
    /\ analysisBtnDisabled = FALSE
    /\ analysisContent = NoText
    /\ actionPlanBtn = FreshActionPlanBtn
    /\ actionPlanContainer = "hidden"
    /\ actionPlanContent = NoText
    /\ pending = <<>>
    /\ lastActionPlan = [kind |-> "none"]
    /\ settled = [fn |-> "none"]

\* the page before DOMContentLoaded, with the selects at given values
PageInit(ds, year, quad, status) ==
    /\ dataSets = ds
    /\ activeData = <<>>
    /\ currentFilteredData = <<>>
    /\ yearCharts = <<>>
    /\ searchInput = <<>>
    /\ yearFilter = year
    /\ diretrizFilter = "todas"
    /\ objetivoFilter = "todos"
    /\ quadrimestreFilter = quad
    /\ statusFilter = status
    /\ diretrizOptions = {}
    /\ objetivoOptions = {}
    /\ goalsGrid = <<>>
    /\ noResults = "hidden"
    /\ loaded = FALSE
    /\ ModalIdle

ClassifierIdle ==
    /\ goal = [polaridade |-> Undefined]
    /\ result = Undefined
    /\ expected = Undefined
    /\ numericValue = [nan |-> TRUE, m |-> 0, s |-> 0]
    /\ statusInfo = [text |-> "", color |-> ""]
    /\ simplified = ""
    /\ returned = {}

NoStatus == [text |-> "", color |-> ""]

InitClassifier ==
    /\ goal \in [polaridade : PolaridadeValues]
    /\ result \in ResultValues
    /\ expected \in ExpectedValues
    /\ numericValue = NaN
    /\ statusInfo = NoStatus
    /\ simplified = ""
    /\ returned = {}
    /\ PageInit(<<>>, "2022", "anual", "todos")

\* numericValue = parseValue(result)
CallParseValue ==
    /\ "parseValue" \notin returned
    /\ numericValue' = parseValue(result)
    /\ returned' = returned \cup {"parseValue"}
    /\ UNCHANGED <<goal, result, expected, statusInfo, simplified, pvars, mvars>>

\* statusInfo = getStatus(goal, result, expected)
CallGetStatus ==
    /\ "getStatus" \notin returned
    /\ statusInfo' = getStatus(goal, result, expected)
    /\ returned' = returned \cup {"getStatus"}
    /\ UNCHANGED <<goal, result, expected, numericValue, simplified, pvars, mvars>>

\* simplified = getSimplifiedStatus(statusInfo.text), as lines 225 and 239
\* compose the two; a getStatus that threw has no status to simplify
CallGetSimplifiedStatus ==
    /\ "getStatus" \in returned
    /\ "getSimplifiedStatus" \notin returned
    /\ statusInfo # ThrownTypeError
    /\ simplified' = getSimplifiedStatus(statusInfo.text)
    /\ returned' = returned \cup {"getSimplifiedStatus"}
    /\ UNCHANGED <<goal, result, expected, numericValue, statusInfo, pvars, mvars>>

NextClassifier == CallParseValue \/ CallGetStatus \/ CallGetSimplifiedStatus

SpecClassifier == InitClassifier /\ [][NextClassifier]_vars

(***************************************************************************)
(* Properties of the classifier and the parser                             *)
(***************************************************************************)
Called(f) == f \in returned

\* the placeholder texts as the specification lists them
HasToken(t) == \/ includes(toLowerCase(t), s_andamento)
               \/ includes(toLowerCase(t), s_apurando)
               \/ includes(toLowerCase(t), s_mensurado)
PlaceholderRaw(v) ==
    \/ v = Undefined \/ v = Null
    \/ HasToken(String(v))
    \/ toLowerCase(String(v)) \in {s_sn, s_na}

IsMenor(g) == g.polaridade.t = "string" /\ toUpperCase(g.polaridade.v) = s_MENOR
IsNotMenor(g) == g.polaridade.t = "string" /\ toUpperCase(g.polaridade.v) # s_MENOR

\* result and expected are both numeric
BothNumeric == ~isNaN(parseValue(result)) /\ ~isNaN(parseValue(expected))

\* r >= 0.9 * e over the rationals
AtLeast90(r, e) == 10 * r.m * Pow10(e.s) >= 9 * e.m * Pow10(r.s)

\* C1: for a goal whose polarity is not lower-is-better and numeric r and e,
\* getStatus returns Superada when r > e, Alcancada when r = e, Parcialmente
\* Alcancada when r < e and r >= 0.9*e, and Nao Alcancada otherwise.
C1_HigherIsBetter ==
    (Called("getStatus") /\ IsNotMenor(goal) /\ BothNumeric) =>
        LET r == parseValue(result)
            e == parseValue(expected)
        IN  statusInfo = IF NumGT(r, e) THEN Superada
                         ELSE IF NumEQ(r, e) THEN Alcancada
                         ELSE IF AtLeast90(r, e) THEN Parcialmente
                         ELSE NaoAlcancada

\* C2: for a lower-is-better goal and numeric r and e, getStatus returns
\* Superada when r < e, Alcancada when r = e, Nao Alcancada when r > e, and
\* never Parcialmente Alcancada.
C2_LowerIsBetter ==
    (Called("getStatus") /\ IsMenor(goal) /\ BothNumeric) =>
        LET r == parseValue(result)
            e == parseValue(expected)
        IN  /\ statusInfo = IF NumLT(r, e) THEN Superada
                            ELSE IF NumEQ(r, e) THEN Alcancada
                            ELSE NaoAlcancada
            /\ statusInfo # Parcialmente

\* a lower-is-better goal written in lower case whose result is above the
\* target but within 10% of it is Nao Alcancada
C2_Witness ==
    /\ Called("getStatus") /\ goal.polaridade = Str(<<"m","e","n","o","r">>) /\ BothNumeric
    /\ NumGT(parseValue(result), parseValue(expected))
    /\ AtLeast90(parseValue(expected), parseValue(result))
    /\ statusInfo = NaoAlcancada

\* C3: a result that is absent or whose text is a placeholder is Em Andamento
\* for every expected value and every polarity, whatever number the text
\* also contains.
C3_PlaceholderPrecedence ==
    (Called("getStatus") /\ PlaceholderRaw(result)) => statusInfo = EmAndamento

\* "apurando (80%)" against a numeric target
C3_Witness ==
    /\ Called("getStatus") /\ result = Str(<<"a","p","u","r","a","n","d","o"," ","(","8","0","%",")">>)
    /\ ~isNaN(parseValue(expected))
    /\ statusInfo = EmAndamento

\* C8: when the result is not a placeholder and the expected value or the
\* result does not parse to a number, getStatus returns Nao Aplicavel for
\* every polarity.
C8_NonNumericOperands ==
    (/\ Called("getStatus") /\ ~PlaceholderRaw(result)
     /\ (isNaN(parseValue(expected)) \/ isNaN(parseValue(result))))
        => statusInfo = NaoAplicavel

\* a numeric result against an expected value that is not a number
C8_Witness ==
    /\ Called("getStatus") /\ ~isNaN(parseValue(result))
    /\ expected = Str(<<"N","/","A">>)
    /\ statusInfo = NaoAplicavel

\* C9: parseValue returns NaN for undefined, null, "na" in any case, a text
\* that is empty after trimming, a text containing "andamento", "apurando"
\* or "mensurado", and "s/n" in any case.
C9_ParseValuePlaceholders ==
    (/\ Called("parseValue")
     /\ \/ result = Undefined \/ result = Null
        \/ toLowerCase(String(result)) = s_na
        \/ trim(String(result)) = <<>>
        \/ HasToken(String(result))
        \/ toLowerCase(String(result)) = s_sn)
        => isNaN(numericValue)

\* a placeholder text that begins with a number
C9_Witness ==
    /\ Called("parseValue") /\ result = Str(<<"5","0"," ","e","m"," ","a","n","d","a","m","e","n","t","o">>)
    /\ isNaN(numericValue)

\* the text of C10: a trailing "%" removed, the decimal comma replaced by a
\* point, apostrophes removed, white space trimmed
RemoveAll(t, c) == SelectSeq(t, LAMBDA x : x # c)
CleanedText(t) ==
    LET noPct == IF t # <<>> /\ t[Len(t)] = "%" THEN SubSeq(t, 1, Len(t) - 1) ELSE t
    IN  trim(RemoveAll(replace(noPct, <<",">>, <<".">>), "'"))

\* t is, in its entirety, a decimal numeral
IsNumeral(t) ==
    LET body == IF t # <<>> /\ Head(t) \in {"+", "-"} THEN Tail(t) ELSE t
        ni   == DigitRun(body)
        rest == Drop(body, ni)
    IN  \/ ni > 0 /\ rest = <<>>
        \/ /\ rest # <<>> /\ Head(rest) = "."
           /\ DigitRun(Tail(rest)) = Len(rest) - 1
           /\ (ni > 0 \/ Len(rest) > 1)

\* C10: for a non-placeholder input parseValue returns the number denoted by
\* the cleaned text, and a numeric input unchanged.
C10_ParseValueNumber ==
    (Called("parseValue") /\ ~PlaceholderRaw(result)) =>
        /\ result.t = "number" => numericValue = result.n
        /\ (result.t = "string" /\ IsNumeral(CleanedText(result.v)))
              => numericValue = parseFloat(CleanedText(result.v))

\* the text of C11: every percent sign and apostrophe removed, the decimal
\* comma replaced by a point, white space trimmed
ResidualText(t) == trim(RemoveAll(RemoveAll(replace(t, <<",">>, <<".">>), "'"), "%"))

\* C11: when the cleaned text of the input is not, in its entirety, a
\* number, parseValue returns NaN.
C11_ParseValueRejectsGarbage ==
    (/\ Called("parseValue") /\ result.t = "string"
     /\ ~IsNumeral(ResidualText(result.v)))
        => isNaN(numericValue)

\* the six classifications, each with its color
StatusClassification ==
    { [text |-> "Superada", color |-> "green"],
      [text |-> "Alcancada", color |-> "green"],
      [text |-> "Parcialmente Alcancada", color |-> "orange"],
      [text |-> "Nao Alcancada", color |-> "red"],
      [text |-> "Em Andamento", color |-> "yellow"],
      [text |-> "Nao Aplicavel", color |-> "gray"] }

Thrown(status) == status.color = "thrown"

\* C14: the status getStatus returns is one of the six classifications, and
\* its color is the one bound to its label.
C14_ClosedSetFixedColors ==
    (Called("getStatus") /\ ~Thrown(statusInfo)) => statusInfo \in StatusClassification

\* a result within 10% below the target of a higher-is-better goal is orange
C14_Witness ==
    /\ Called("getStatus") /\ IsNotMenor(goal) /\ BothNumeric
    /\ NumLT(parseValue(result), parseValue(expected))
    /\ statusInfo = [text |-> "Parcialmente Alcancada", color |-> "orange"]

\* C15: getSimplifiedStatus maps Superada and Alcancada to Alcancada,
\* Parcialmente Alcancada and Nao Alcancada to Nao Alcancada and every other
\* label to Outro; on a status of getStatus it is one of these three.
C15_Simplification ==
    Called("getSimplifiedStatus") =>
        /\ statusInfo.text \in {"Superada", "Alcancada"} => simplified = "Alcancada"
        /\ statusInfo.text \in {"Parcialmente Alcancada", "Nao Alcancada"}
              => simplified = "Nao Alcancada"
        /\ statusInfo.text \notin {"Superada", "Alcancada", "Parcialmente Alcancada",
                                   "Nao Alcancada"} => simplified = "Outro"
        /\ simplified \in {"Alcancada", "Nao Alcancada", "Outro"}

\* a result that does not parse, classified Nao Aplicavel, simplifies to Outro
C15_Witness ==
    /\ Called("getSimplifiedStatus") /\ statusInfo.text = "Nao Aplicavel"
    /\ simplified = "Outro"

\* C16: getStatus and parseValue return a value for every goal, result and
\* expected value, a goal without a polarity included, and never throw.
C16_NeverThrows ==
    /\ Called("getStatus") => ~Thrown(statusInfo)
    /\ Called("parseValue") => numericValue \in [nan : BOOLEAN, m : Int, s : Nat]

\* C17: getStatus applies the lower-is-better rules exactly when the
\* polarity is "MENOR" in any letter case and the higher-is-better rules for
\* every other polarity string, and rejects none.
C17_DefaultPolarity ==
    (Called("getStatus") /\ goal.polaridade.t = "string" /\ BothNumeric) =>
        LET r == parseValue(result)
            e == parseValue(expected)
        IN  /\ ~Thrown(statusInfo)
            /\ NumEQ(r, e) => statusInfo.text = "Alcancada"
            /\ IF toLowerCase(goal.polaridade.v) = <<"m","e","n","o","r">>
               THEN /\ NumLT(r, e) => statusInfo.text = "Superada"
                    /\ NumGT(r, e) => statusInfo.text = "Nao Alcancada"
               ELSE /\ NumGT(r, e) => statusInfo.text = "Superada"
                    /\ NumLT(r, e) => statusInfo.text \in {"Parcialmente Alcancada",
                                                           "Nao Alcancada"}

\* "Menor" in mixed case is lower-is-better, "menor " with a trailing blank
\* is not
C17_Witness ==
    /\ Called("getStatus") /\ BothNumeric
    /\ NumLT(parseValue(result), parseValue(expected))
    /\ \/ goal.polaridade = Str(<<"M","e","n","o","r">>) /\ statusInfo.text = "Superada"
       \/ goal.polaridade = Str(<<"m","e","n","o","r"," ">>) /\ statusInfo.text = "Nao Alcancada"

\* C22: for a goal classified with the higher-is-better rules whose numeric
\* expected value is zero or negative, getStatus never answers Parcialmente
\* Alcancada: a numeric result at or above the expected value is Alcancada
\* or Superada and one below it is Nao Alcancada.
C22_NonPositiveExpected ==
    (/\ Called("getStatus") /\ BothNumeric
     /\ goal.polaridade.t = "string" /\ ~IsMenor(goal)
     /\ ~NumGT(parseValue(expected), Dec(0, 0))) =>
        LET r == parseValue(result)
            e == parseValue(expected)
        IN  /\ statusInfo.text # "Parcialmente Alcancada"
            /\ NumGE(r, e) => statusInfo.text \in {"Alcancada", "Superada"}
            /\ NumLT(r, e) => statusInfo.text = "Nao Alcancada"

\* a result between a negative target and its 110%, and one just below zero
\* for the target zero
C22_Witness ==
    /\ Called("getStatus") /\ BothNumeric
    /\ goal.polaridade = Str(<<"m","a","i","o","r">>)
    /\ statusInfo.text = "Nao Alcancada"
    /\ \/ expected = Str(<<"-","1">>) /\ result = Str(<<"-","1",",","1">>)
       \/ expected = Str(<<"0">>) /\ result = Str(<<"-","0",",","1">>)

(***************************************************************************)
(* Data normalizer.  The raw dataset is the sequence of its (year,         *)
(* diretriz, objetivo, goal record) quadruples in iteration order          *)
(* (for..in over the nested object, for..of over each list).               *)
(***************************************************************************)
NoObject == [t |-> "undefined"]
Obj(f) == [t |-> "object", f |-> f]
EmptyMap == [k \in {} |-> Undefined]

\* the truthiness of a raw value in "a || b" and "!a"
Truthy(v) ==
    CASE v.t = "undefined" -> FALSE
      [] v.t = "null"      -> FALSE
      [] v.t = "string"    -> v.v # <<>>
      [] v.t = "number"    -> ~v.n.nan /\ v.n.m # 0
      [] OTHER             -> TRUE

s_NA_slash == Str(<<"N","/","A">>)
s_SN_upper == Str(<<"S","/","N">>)

\* the first pass without the test for a goal already seen
RECURSIVE firstPassOverwrite(_, _)
firstPassOverwrite(ds, n) ==
    IF n = 0 THEN EmptyMap
    ELSE LET masterData == firstPassOverwrite(ds, n - 1)
             goalData   == ds[n]
         IN  [k \in DOMAIN masterData \cup {goalData.id} |->
                 IF k = goalData.id
                 THEN [id         |-> goalData.id,
                       title      |-> goalData.title,
                       polaridade |-> goalData.polaridade,
                       diretriz   |-> goalData.diretriz,
                       objetivo   |-> goalData.objetivo,
                       yearly_data |-> EmptyMap]
                 ELSE masterData[k]]

\* lines 62-81: masterData after the first n quadruples of the first pass
RECURSIVE firstPass(_, _)
firstPass(ds, n) ==
    IF n = 0 THEN EmptyMap
    ELSE LET masterData == firstPass(ds, n - 1)
             goalData   == ds[n]
         IN  IF goalData.id \in DOMAIN masterData THEN masterData
             ELSE masterData @@
                  (goalData.id :> [id         |-> goalData.id,
                                   title      |-> goalData.title,
                                   polaridade |-> goalData.polaridade,
                                   diretriz   |-> goalData.diretriz,
                                   objetivo   |-> goalData.objetivo,
                                   yearly_data |-> EmptyMap])

\* one property assignment obj[key] = val
Assign(obj, key, val) == [k \in DOMAIN obj \cup {key} |-> IF k = key THEN val ELSE obj[k]]

\* the second pass keeping the YearRecord a year already has
RECURSIVE secondPassKeepFirst(_, _, _)
secondPassKeepFirst(ds, n, master0) ==
    IF n = 0 THEN master0
    ELSE LET masterData == secondPassKeepFirst(ds, n - 1, master0)
             goalData   == ds[n]
         IN  IF /\ goalData.id \in DOMAIN masterData
                /\ goalData.year \notin DOMAIN masterData[goalData.id].yearly_data
             THEN [masterData EXCEPT ![goalData.id].yearly_data =
                      Assign(@, goalData.year,
                             [esperado      |-> goalData.esperado,
                              resultado     |-> goalData.resultado,
                              quadrimestres |-> IF goalData.quadrimestres.t = "object"
                                                THEN goalData.quadrimestres.f
                                                ELSE EmptyMap])]
             ELSE masterData

\* lines 83-97: masterData after the first n quadruples of the second pass
RECURSIVE secondPass(_, _, _)
secondPass(ds, n, master0) ==
    IF n = 0 THEN master0
    ELSE LET masterData == secondPass(ds, n - 1, master0)
             goalData   == ds[n]
         IN  IF goalData.id \in DOMAIN masterData
             THEN [masterData EXCEPT ![goalData.id].yearly_data =
                      Assign(@, goalData.year,
                             [esperado      |-> goalData.esperado,
                              resultado     |-> goalData.resultado,
                              quadrimestres |-> IF goalData.quadrimestres.t = "object"
                                                THEN goalData.quadrimestres.f
                                                ELSE EmptyMap])]
             ELSE masterData

\* Object.values of an object with integer keys: ascending key order
RECURSIVE ObjectValues(_)
ObjectValues(obj) ==
    IF DOMAIN obj = {} THEN <<>>
    ELSE LET k == CHOOSE x \in DOMAIN obj : \A y \in DOMAIN obj : x <= y
         IN  <<obj[k]>> \o ObjectValues([y \in DOMAIN obj \ {k} |-> obj[y]])

\* lines 102-111: the placeholder year 2025
addPlaceholder2025(g) ==
    IF "2025" \in DOMAIN g.yearly_data THEN g
    ELSE LET esperado2024 ==
                 IF "2024" \in DOMAIN g.yearly_data
                    /\ Truthy(g.yearly_data["2024"].esperado)
                 THEN g.yearly_data["2024"].esperado
                 ELSE s_NA_slash
         IN  [g EXCEPT !.yearly_data =
                 Assign(@, "2025",
                        [esperado      |-> esperado2024,
                         resultado     |-> s_SN_upper,
                         quadrimestres |-> [k \in {"1", "2", "3"} |-> s_SN_upper]])]

\* the registry with one entry pushed per quadruple
normalizePerRecord(ds) ==
    LET masterData == secondPass(ds, Len(ds), firstPass(ds, Len(ds)))
    IN  [i \in 1..Len(ds) |-> addPlaceholder2025(masterData[ds[i].id])]

\* lines 59-113: the registry built from the raw dataset
normalize(ds) ==
    LET masterData == secondPass(ds, Len(ds), firstPass(ds, Len(ds)))
        allGoals   == ObjectValues(masterData)
    IN  [i \in 1..Len(allGoals) |-> addPlaceholder2025(allGoals[i])]

\* lines 56-66: the directives seen in the dataset
allDiretrizes(ds) == { ds[i].diretriz : i \in 1..Len(ds) }

(***************************************************************************)
(* Filtering and rendering                                                 *)
(***************************************************************************)
ChartYears == <<"2022", "2023", "2024">>

\* lines 235-236 (and 222-223): the result a chart classifies
chartResult(yearData, selectedQuad) ==
    LET picked == IF selectedQuad = "anual" THEN yearData.resultado
                  ELSE IF selectedQuad \in DOMAIN yearData.quadrimestres
                       THEN yearData.quadrimestres[selectedQuad]
                       ELSE Undefined
    IN  IF picked = Undefined /\ selectedQuad # "anual" THEN yearData.resultado
        ELSE picked

hasYear(g, year) == year \in DOMAIN g.yearly_data

chartSimplified(g, year, selectedQuad) ==
    getSimplifiedStatus(getStatus(g, chartResult(g.yearly_data[year], selectedQuad),
                                  g.yearly_data[year].esperado).text)

\* lines 216-228: the goals a year's chart counts
filteredForChart(baseFilteredData, year, selectedQuad, selectedStatusFilter) ==
    IF selectedStatusFilter # "todos"
    THEN SelectSeq(baseFilteredData,
                   LAMBDA g : /\ hasYear(g, year)
                              /\ chartSimplified(g, year, selectedQuad) = selectedStatusFilter)
    ELSE baseFilteredData

\* lines 230-243: the three counts of one chart
statusCounts(chartGoals, year, selectedQuad) ==
    LET simplifiedStatus ==
            [i \in 1..Len(chartGoals) |->
                IF hasYear(chartGoals[i], year)
                THEN chartSimplified(chartGoals[i], year, selectedQuad)
                ELSE "skipped"]
    IN  [b \in {"Alcancada", "Nao Alcancada", "Outro"} |->
            Cardinality({ i \in 1..Len(chartGoals) : simplifiedStatus[i] = b })]

\* lines 199-286: the data of the three charts
renderAllYearCharts(baseFilteredData, selectedQuad, selectedStatusFilter) ==
    [y \in { ChartYears[i] : i \in 1..Len(ChartYears) } |->
        statusCounts(filteredForChart(baseFilteredData, y, selectedQuad,
                                      selectedStatusFilter), y, selectedQuad)]

\* the result of a card without the fallback of line 304
displayResultNoFallback(yearData, selectedQuad) ==
    IF selectedQuad = "anual" THEN yearData.resultado
    ELSE IF selectedQuad \in DOMAIN yearData.quadrimestres
         THEN yearData.quadrimestres[selectedQuad]
         ELSE Undefined

\* lines 303-304: the result a goal card shows
displayResult(yearData, selectedQuad) ==
    LET picked == IF selectedQuad = "anual" THEN yearData.resultado
                  ELSE IF selectedQuad \in DOMAIN yearData.quadrimestres
                       THEN yearData.quadrimestres[selectedQuad]
                       ELSE Undefined
    IN  IF picked = Undefined /\ selectedQuad # "anual" THEN yearData.resultado
        ELSE picked

\* lines 299-343: one card per goal that has data for the selected year
goalCards(filteredData, selectedYear, selectedQuad) ==
    LET shown == SelectSeq(filteredData, LAMBDA g : hasYear(g, selectedYear))
    IN  [i \in 1..Len(shown) |->
            LET yearData == shown[i].yearly_data[selectedYear]
            IN  [id         |-> shown[i].id,
                 result     |-> displayResult(yearData, selectedQuad),
                 statusInfo |-> getStatus(shown[i], displayResult(yearData, selectedQuad),
                                          yearData.esperado)]]

s_meta == <<"m","e","t","a"," ">>

\* lines 351-356: the goals matching the search, directive and objective
searchMatch(g, searchTerm) ==
    \/ includes(toLowerCase(g.title), searchTerm)
    \/ includes(NatToString(g.id), searchTerm)
    \/ includes(s_meta \o NatToString(g.id), searchTerm)

baseFilter(data, searchValue, selectedDiretriz, selectedObjetivo) ==
    SelectSeq(data, LAMBDA g :
        /\ searchMatch(g, toLowerCase(searchValue))
        /\ (selectedDiretriz = "todas" \/ g.diretriz = selectedDiretriz)
        /\ (selectedObjetivo = "todos" \/ g.objetivo = selectedObjetivo))

\* lines 127-145: the objectives offered for the selected directive
objetivosOfDiretriz(data, selectedDiretriz) ==
    { data[i].objetivo : i \in { j \in 1..Len(data) :
          selectedDiretriz = "todas" \/ data[j].diretriz = selectedDiretriz } }

(***************************************************************************)
(* Raw datasets                                                            *)
(***************************************************************************)
t_ubs  == <<"A","m","p","l","i","a","r"," ","U","B","S">>
t_fila == <<"R","e","d","u","z","i","r"," ","f","i","l","a">>

Rec(year, diretriz, objetivo, id, title, polaridade, esperado, resultado, quadrimestres) ==
    [year |-> year, diretriz |-> diretriz, objetivo |-> objetivo, id |-> id,
     title |-> title, polaridade |-> Str(polaridade), esperado |-> esperado,
     resultado |-> resultado, quadrimestres |-> quadrimestres]

\* the goal records the page is driven on
PageRecords ==
    { Rec("2023", "D1", "O1", 1, t_ubs, <<"m","a","i","o","r">>, Str(<<"8","0">>), Str(<<"8","5">>),
          Obj(("1" :> Str(<<"7","0">>)) @@ ("2" :> Str(<<"8","0">>)))),
      Rec("2023", "D2", "O3", 2, t_fila, <<"m","e","n","o","r">>, Str(<<"1","0">>), Str(<<"1","2">>), NoObject),
      Rec("2024", "D1", "O2", 1, t_fila, <<"M","E","N","O","R">>, Num(0, 0), Str(<<"S","/","N">>), Obj(EmptyMap)),
      Rec("2024", "D2", "O3", 2, t_fila, <<"m","e","n","o","r">>, Str(<<>>), Num(5, 0),
          Obj(("3" :> Str(<<"4">>)) @@ ("1" :> Undefined))),
      Rec("2024", "D2", "O3", 2, t_ubs, <<"m","a","i","o","r">>, Str(<<"1","2",",","5","%">>), Str(<<"1","2",",","5">>),
          Obj("2" :> Str(<<"E","m"," ","a","n","d","a","m","e","n","t","o">>))) }

\* the goal records a dataset given to the normalizer is made of
RecordChoices ==
    PageRecords \cup
    { Rec("2024", "D1", "O1", 1, t_ubs, <<"m","a","i","o","r">>, Str(<<"8","0">>), Str(<<"7","5">>), NoObject),
      Rec("2024", "D2", "O3", 1, t_ubs, <<"m","a","i","o","r">>, Str(<<"N","/","A">>), Str(<<"5","0">>),
          Obj("1" :> Str(<<"6","0">>))),
      Rec("2025", "D2", "O3", 2, t_fila, <<"m","e","n","o","r">>, Str(<<"1","0">>), Str(<<"9">>),
          Obj("1" :> Str(<<"a","p","u","r","a","n","d","o">>))),
      Rec("2025", "D1", "O1", 1, t_ubs, <<"m","a","i","o","r">>, Str(<<"9","0","%">>), Str(<<"S","/","N">>), NoObject) }

\* the order of the years in a for..in over integer-like keys
YearOrder(y) == CASE y = "2022" -> 1 [] y = "2023" -> 2 [] y = "2024" -> 3 [] OTHER -> 4

\* ds is the iteration of a nested dataset: years ascending, each directive
\* of a year and each objective of a directive in one run
IsIteration(ds) ==
    /\ \A i \in 1..(Len(ds) - 1) : YearOrder(ds[i].year) <= YearOrder(ds[i + 1].year)
    /\ \A i, j, k \in 1..Len(ds) :
          (i < j /\ j < k /\ ds[i].year = ds[k].year /\ ds[i].diretriz = ds[k].diretriz)
             => /\ ds[j].diretriz = ds[i].diretriz
                /\ (ds[i].objetivo = ds[k].objetivo => ds[j].objetivo = ds[i].objetivo)

RECURSIVE SeqsUpTo(_, _)
SeqsUpTo(S, n) ==
    IF n = 0 THEN {<<>>}
    ELSE LET shorter == SeqsUpTo(S, n - 1)
         IN  shorter \cup { Append(q, x) : q \in { r \in shorter : Len(r) = n - 1 }, x \in S }

DataSetsUpTo(records, n) == { ds \in SeqsUpTo(records, n) : IsIteration(ds) }

(***************************************************************************)
(* The page                                                                *)
(***************************************************************************)
YearOptions   == {"2023", "2024", "2025"}
QuadOptions   == {"anual", "1", "2", "3"}
StatusOptions == {"todos", "Alcancada", "Nao Alcancada", "Outro"}
SearchTerms   == { <<>>, <<"F","i","l","a">>, <<"m","e","t","a"," ","1">> }

MaxRecords == 3    \* records of a dataset the normalizer is run on
MaxLoaded  == 2    \* records of a dataset the page is driven on

Init ==
    /\ ClassifierIdle
    /\ \E ds \in DataSetsUpTo(PageRecords, MaxLoaded), y \in YearOptions,
          q \in QuadOptions, st \in StatusOptions : PageInit(ds, y, q, st)

InitNormalizer ==
    /\ ClassifierIdle
    /\ \E ds \in DataSetsUpTo(RecordChoices, MaxRecords) : PageInit(ds, "2024", "anual", "todos")

\* the cards rendered from the goals the selected year's chart counts
filterAndRenderStatusOnCards(data, searchValue, year, diretriz, objetivo, quad, status) ==
    LET baseFilteredData == baseFilter(data, searchValue, diretriz, objetivo)
    IN  /\ currentFilteredData' = baseFilteredData
        /\ yearCharts' = renderAllYearCharts(baseFilteredData, quad, status)
        /\ goalsGrid' = goalCards(filteredForChart(baseFilteredData, year, quad, status),
                                  year, quad)
        /\ noResults' = IF Len(baseFilteredData) = 0 THEN "shown" ELSE "hidden"

\* lines 346-363, on the registry data and the values the elements hold
filterAndRender(data, searchValue, year, diretriz, objetivo, quad, status) ==
    LET baseFilteredData == baseFilter(data, searchValue, diretriz, objetivo)
    IN  /\ currentFilteredData' = baseFilteredData
        /\ yearCharts' = renderAllYearCharts(baseFilteredData, quad, status)
        /\ goalsGrid' = goalCards(baseFilteredData, year, quad)
        /\ noResults' = IF Len(baseFilteredData) = 0 THEN "shown" ELSE "hidden"

\* lines 33-771: initializeData() then filterAndRender()
DOMContentLoaded ==
    /\ ~loaded
    /\ loaded' = TRUE
    /\ activeData' = normalize(dataSets)
    /\ diretrizOptions' = allDiretrizes(dataSets)
    /\ diretrizFilter' = "todas"
    /\ objetivoOptions' = objetivosOfDiretriz(activeData', "todas")
    /\ objetivoFilter' = "todos"
    /\ filterAndRender(activeData', searchInput, yearFilter, "todas", "todos",
                       quadrimestreFilter, statusFilter)
    /\ UNCHANGED <<dataSets, searchInput, yearFilter, quadrimestreFilter, statusFilter, cvars, mvars>>

\* line 760: change of the year select
ChangeYear ==
    /\ loaded
    /\ \E y \in YearOptions \ {yearFilter} :
          /\ yearFilter' = y
          /\ filterAndRender(activeData, searchInput, y, diretrizFilter, objetivoFilter,
                             quadrimestreFilter, statusFilter)
    /\ UNCHANGED <<dataSets, activeData, searchInput, diretrizFilter, objetivoFilter,
                   quadrimestreFilter, statusFilter, diretrizOptions, objetivoOptions,
                   loaded, cvars, mvars>>

\* the search narrowing the registry itself
ChangeSearchNarrowsRegistry ==
    /\ loaded
    /\ \E t \in SearchTerms \ {searchInput} :
          /\ searchInput' = t
          /\ filterAndRender(activeData, t, yearFilter, diretrizFilter, objetivoFilter,
                             quadrimestreFilter, statusFilter)
    /\ activeData' = currentFilteredData'
    /\ UNCHANGED <<dataSets, yearFilter, diretrizFilter, objetivoFilter,
                   quadrimestreFilter, statusFilter, diretrizOptions, objetivoOptions,
                   loaded, cvars, mvars>>

\* lines 760 and 767: change or input of the search box
ChangeSearch ==
    /\ loaded
    /\ \E t \in SearchTerms \ {searchInput} :
          /\ searchInput' = t
          /\ filterAndRender(activeData, t, yearFilter, diretrizFilter, objetivoFilter,
                             quadrimestreFilter, statusFilter)
    /\ UNCHANGED <<dataSets, activeData, yearFilter, diretrizFilter, objetivoFilter,
                   quadrimestreFilter, statusFilter, diretrizOptions, objetivoOptions,
                   loaded, cvars, mvars>>

\* line 760: change of the objective select
ChangeObjetivo ==
    /\ loaded
    /\ \E o \in (objetivoOptions \cup {"todos"}) \ {objetivoFilter} :
          /\ objetivoFilter' = o
          /\ filterAndRender(activeData, searchInput, yearFilter, diretrizFilter, o,
                             quadrimestreFilter, statusFilter)
    /\ UNCHANGED <<dataSets, activeData, searchInput, yearFilter, diretrizFilter,
                   quadrimestreFilter, statusFilter, diretrizOptions, objetivoOptions,
                   loaded, cvars, mvars>>

\* line 760: change of the sub-period select
ChangeQuadrimestre ==
    /\ loaded
    /\ \E q \in QuadOptions \ {quadrimestreFilter} :
          /\ quadrimestreFilter' = q
          /\ filterAndRender(activeData, searchInput, yearFilter, diretrizFilter,
                             objetivoFilter, q, statusFilter)
    /\ UNCHANGED <<dataSets, activeData, searchInput, yearFilter, diretrizFilter,
                   objetivoFilter, statusFilter, diretrizOptions, objetivoOptions,
                   loaded, cvars, mvars>>

\* line 760: change of the status select
ChangeStatus ==
    /\ loaded
    /\ \E st \in StatusOptions \ {statusFilter} :
          /\ statusFilter' = st
          /\ filterAndRender(activeData, searchInput, yearFilter, diretrizFilter,
                             objetivoFilter, quadrimestreFilter, st)
    /\ UNCHANGED <<dataSets, activeData, searchInput, yearFilter, diretrizFilter,
                   objetivoFilter, quadrimestreFilter, diretrizOptions, objetivoOptions,
                   loaded, cvars, mvars>>

\* lines 762-765: change of the directive select; updateObjetivoFilter
\* rebuilds the objective options, which leaves "todos" selected
ChangeDiretriz ==
    /\ loaded
    /\ \E d \in (diretrizOptions \cup {"todas"}) \ {diretrizFilter} :
          /\ diretrizFilter' = d
          /\ objetivoOptions' = objetivosOfDiretriz(activeData, d)
          /\ objetivoFilter' = "todos"
          /\ filterAndRender(activeData, searchInput, yearFilter, d, "todos",
                             quadrimestreFilter, statusFilter)
    /\ UNCHANGED <<dataSets, activeData, searchInput, yearFilter, quadrimestreFilter,
                   statusFilter, diretrizOptions, loaded, cvars, mvars>>

Next ==
    \/ DOMContentLoaded
    \/ ChangeYear
    \/ ChangeSearch
    \/ ChangeObjetivo
    \/ ChangeQuadrimestre
    \/ ChangeStatus
    \/ ChangeDiretriz

Spec == Init /\ [][Next]_vars

SpecNormalizer == InitNormalizer /\ [][DOMContentLoaded]_vars

(***************************************************************************)
(* The goal modal and the AI requests                                      *)
(***************************************************************************)
MaxPending == 2    \* AI calls in flight at one time

s_maior == <<"m","a","i","o","r">>

\* line 668: the polarity the modal shows
modalPolaridade(g) ==
    IF g.polaridade = Str(s_maior) THEN "Meta de crescimento" ELSE "Meta de reducao"

\* line 411: the polarity the analysis prompt states
promptPolaridade(g) ==
    IF g.polaridade = Str(s_maior) THEN "Quanto maior, melhor" ELSE "Quanto menor, melhor"

\* lines 626-627: the result the modal shows and classifies
resultForModal(yearData, period) ==
    LET picked == IF period = "anual" THEN yearData.resultado
                  ELSE IF period \in DOMAIN yearData.quadrimestres
                       THEN yearData.quadrimestres[period]
                       ELSE Undefined
    IN  IF picked = Undefined /\ period # "anual" THEN yearData.resultado
        ELSE picked

\* the goal a card's listeners were given (lines 340-341)
goalOfCard(card) == activeData[CHOOSE k \in 1..Len(activeData) : activeData[k].id = card.id]
goalOfModal == activeData[CHOOSE k \in 1..Len(activeData) : activeData[k].id = modalWrapper.goal]

\* replacing modalWrapper.innerHTML detaches the elements the calls in
\* flight hold
Detached(reqs) == [i \in DOMAIN reqs |-> [reqs[i] EXCEPT !.attached = FALSE]]

Remove(q, i) == SubSeq(q, 1, i - 1) \o SubSeq(q, i + 1, Len(q))

\* lines 612-756: a click or Enter on a goal card
OpenGoalModal ==
    /\ loaded
    /\ \E i \in 1..Len(goalsGrid) :
          LET g == goalOfCard(goalsGrid[i])
          IN  IF ~hasYear(g, yearFilter)
              THEN modalWrapper' = [kind |-> "nodata", goal |-> g.id]
              ELSE modalWrapper' =
                      [kind       |-> "detail",
                       goal       |-> g.id,
                       year       |-> yearFilter,
                       period     |-> quadrimestreFilter,
                       polaridade |-> modalPolaridade(g),
                       result     |-> resultForModal(g.yearly_data[yearFilter],
                                                     quadrimestreFilter),
                       status     |-> getStatus(g,
                                                resultForModal(g.yearly_data[yearFilter],
                                                               quadrimestreFilter),
                                                g.yearly_data[yearFilter].esperado)]
    /\ modal' = "shown"
    /\ analysisBtnDisabled' = FALSE
    /\ analysisContent' = NoText
    /\ actionPlanBtn' = FreshActionPlanBtn
    /\ actionPlanContainer' = "hidden"
    /\ actionPlanContent' = NoText
    /\ pending' = Detached(pending)
    /\ UNCHANGED <<lastActionPlan, settled, pvars, cvars>>

\* lines 721-725, 737-754: the close button, Escape or a click on the backdrop
CloseModal ==
    /\ modal = "shown"
    /\ modal' = "hidden"
    /\ UNCHANGED <<modalWrapper, analysisBtnDisabled, analysisContent, actionPlanBtn,
                   actionPlanContainer, actionPlanContent, pending, lastActionPlan,
                   settled, pvars, cvars>>

\* line 726 and lines 390-431: generateQualitativeAnalysis up to its await
ClickGenerateAnalysis ==
    /\ modal = "shown" /\ modalWrapper.kind = "detail"
    /\ ~analysisBtnDisabled
    /\ Len(pending) < MaxPending
    /\ analysisBtnDisabled' = TRUE
    /\ analysisContent' = [kind |-> "loading"]
    /\ actionPlanContainer' = "hidden"
    /\ pending' = Append(pending, [fn         |-> "analysis",
                                   goal       |-> modalWrapper.goal,
                                   polaridade |-> promptPolaridade(goalOfModal),
                                   attached   |-> TRUE])
    /\ UNCHANGED <<modal, modalWrapper, actionPlanBtn, actionPlanContent, lastActionPlan,
                   settled, pvars, cvars>>

\* what an AI call settles with: a text, an empty text (line 373 accepts
\* any string) or a failure
Outcomes == {"text", "empty", "error"}

\* the settling without the finally clause of line 438
AnalysisSettlesNoFinally ==
    /\ \E i \in 1..Len(pending), outcome \in Outcomes :
          /\ pending[i].fn = "analysis"
          /\ analysisContent' =
                IF ~pending[i].attached THEN analysisContent
                ELSE IF outcome = "error" \/ modalWrapper.kind # "detail"
                     THEN [kind |-> "error"]
                ELSE IF outcome = "text" THEN [kind |-> "text", goal |-> pending[i].goal]
                ELSE [kind |-> "empty"]
          /\ actionPlanBtn' =
                IF outcome = "error" \/ modalWrapper.kind # "detail" THEN actionPlanBtn
                ELSE [hidden       |-> FALSE,
                      disabled     |-> FALSE,
                      analysisText |-> IF outcome = "text"
                                       THEN [kind |-> "text", goal |-> pending[i].goal]
                                       ELSE [kind |-> "empty"]]
          /\ analysisBtnDisabled' = IF pending[i].attached /\ outcome # "error"
                                    THEN FALSE ELSE analysisBtnDisabled
          /\ pending' = Remove(pending, i)
          /\ settled' = [fn       |-> pending[i].fn,
                         goal     |-> pending[i].goal,
                         attached |-> pending[i].attached,
                         outcome  |-> outcome]
    /\ UNCHANGED <<modal, modalWrapper, actionPlanContainer, actionPlanContent,
                   lastActionPlan, pvars, cvars>>

\* lines 431-438: the AI call of an analysis settles.  The content
\* container and the generate button are the elements captured on lines
\* 391-392; the action-plan button is looked up again on line 434
AnalysisSettles ==
    /\ \E i \in 1..Len(pending), outcome \in Outcomes :
          /\ pending[i].fn = "analysis"
          /\ analysisContent' =
                IF ~pending[i].attached THEN analysisContent
                ELSE IF outcome = "error" \/ modalWrapper.kind # "detail"
                     THEN [kind |-> "error"]
                ELSE IF outcome = "text" THEN [kind |-> "text", goal |-> pending[i].goal]
                ELSE [kind |-> "empty"]
          /\ actionPlanBtn' =
                IF outcome = "error" \/ modalWrapper.kind # "detail" THEN actionPlanBtn
                ELSE [hidden       |-> FALSE,
                      disabled     |-> FALSE,
                      analysisText |-> IF outcome = "text"
                                       THEN [kind |-> "text", goal |-> pending[i].goal]
                                       ELSE [kind |-> "empty"]]
          /\ analysisBtnDisabled' = IF pending[i].attached THEN FALSE ELSE analysisBtnDisabled
          /\ pending' = Remove(pending, i)
          /\ settled' = [fn       |-> pending[i].fn,
                         goal     |-> pending[i].goal,
                         attached |-> pending[i].attached,
                         outcome  |-> outcome]
    /\ UNCHANGED <<modal, modalWrapper, actionPlanContainer, actionPlanContent,
                   lastActionPlan, pvars, cvars>>

\* lines 727-734 and 441-469: a click on the action-plan button;
\* generateActionPlan up to its await
ClickActionPlan ==
    /\ modal = "shown" /\ modalWrapper.kind = "detail"
    /\ ~actionPlanBtn.hidden /\ ~actionPlanBtn.disabled
    /\ IF actionPlanBtn.analysisText.kind = "text"
       THEN /\ Len(pending) < MaxPending
            /\ lastActionPlan' = [kind         |-> "call",
                                  goal         |-> modalWrapper.goal,
                                  analysisText |-> actionPlanBtn.analysisText]
            /\ actionPlanBtn' = [actionPlanBtn EXCEPT !.disabled = TRUE]
            /\ actionPlanContainer' = "shown"
            /\ actionPlanContent' = [kind |-> "loading"]
            /\ pending' = Append(pending, [fn       |-> "plan",
                                           goal     |-> modalWrapper.goal,
                                           attached |-> TRUE])
       ELSE /\ actionPlanContent' = [kind |-> "error"]
            /\ UNCHANGED <<lastActionPlan, actionPlanBtn, actionPlanContainer, pending>>
    /\ UNCHANGED <<modal, modalWrapper, analysisBtnDisabled, analysisContent, settled,
                   pvars, cvars>>

\* lines 469-472: the AI call of an action plan settles
PlanSettles ==
    /\ \E i \in 1..Len(pending), outcome \in Outcomes :
          /\ pending[i].fn = "plan"
          /\ actionPlanContent' =
                IF ~pending[i].attached THEN actionPlanContent
                ELSE IF outcome = "error" THEN [kind |-> "error"]
                ELSE IF outcome = "text" THEN [kind |-> "plan", goal |-> pending[i].goal]
                ELSE [kind |-> "empty"]
          /\ actionPlanBtn' = IF pending[i].attached
                              THEN [actionPlanBtn EXCEPT !.disabled = FALSE]
                              ELSE actionPlanBtn
          /\ pending' = Remove(pending, i)
          /\ settled' = [fn       |-> pending[i].fn,
                         goal     |-> pending[i].goal,
                         attached |-> pending[i].attached,
                         outcome  |-> outcome]
    /\ UNCHANGED <<modal, modalWrapper, analysisBtnDisabled, analysisContent,
                   actionPlanContainer, lastActionPlan, pvars, cvars>>

\* the dataset the modal is driven on: a growth goal written "Maior" and a
\* reduction goal
ModalDataSet ==
    << Rec("2023", "D1", "O1", 1, t_ubs, <<"M","a","i","o","r">>, Str(<<"8","0">>), Str(<<"8","5">>),
           Obj(("1" :> Str(<<"7","0">>)) @@ ("2" :> Str(<<"a","p","u","r","a","n","d","o">>)))),
       Rec("2024", "D1", "O1", 2, t_fila, <<"m","e","n","o","r">>, Str(<<"1","0">>), Str(<<"1","2">>), NoObject) >>

InitModal ==
    /\ ClassifierIdle
    /\ \E y \in YearOptions, q \in QuadOptions : PageInit(ModalDataSet, y, q, "todos")

NextModal ==
    \/ DOMContentLoaded
    \/ OpenGoalModal
    \/ CloseModal
    \/ ClickGenerateAnalysis
    \/ AnalysisSettles
    \/ ClickActionPlan
    \/ PlanSettles

SpecModal == InitModal /\ [][NextModal]_vars

(***************************************************************************)
(* Properties of the normalizer                                            *)
(***************************************************************************)
RawIds == { dataSets[i].id : i \in 1..Len(dataSets) }
RecordsOf(id, year) == { i \in 1..Len(dataSets) : dataSets[i].id = id /\ dataSets[i].year = year }
FirstRecordOf(id) ==
    dataSets[CHOOSE k \in 1..Len(dataSets) :
                /\ dataSets[k].id = id
                /\ \A j \in 1..(k - 1) : dataSets[j].id # id]

\* C4: after initializeData every goal identifier of the raw dataset is in
\* the registry exactly once, and no other identifier is.
C4_EachIdOnce ==
    loaded =>
        /\ \A id \in RawIds :
              Cardinality({ i \in 1..Len(activeData) : activeData[i].id = id }) = 1
        /\ \A i \in 1..Len(activeData) : activeData[i].id \in RawIds

\* a goal referenced under two (year, directive, objective) combinations,
\* next to another goal
C4_Witness ==
    /\ loaded /\ Len(activeData) = 2
    /\ \E i, j \in 1..Len(dataSets) :
          /\ dataSets[i].id = dataSets[j].id
          /\ <<dataSets[i].year, dataSets[i].diretriz, dataSets[i].objetivo>>
               # <<dataSets[j].year, dataSets[j].diretriz, dataSets[j].objetivo>>

\* C5: a goal's directive, objective, title and polarity are those of the
\* first quadruple that carries its identifier.
C5_FirstSeenIdentity ==
    loaded =>
        \A i \in 1..Len(activeData) :
            LET g == activeData[i]
                f == FirstRecordOf(g.id)
            IN  /\ g.diretriz = f.diretriz
                /\ g.objetivo = f.objetivo
                /\ g.title = f.title
                /\ g.polaridade = f.polaridade

\* a later quadruple with the same identifier differs in all four fields
C5_Witness ==
    /\ loaded
    /\ \E j \in 1..Len(dataSets) :
          LET f == FirstRecordOf(dataSets[j].id)
          IN  /\ dataSets[j].diretriz # f.diretriz
              /\ dataSets[j].objetivo # f.objetivo
              /\ dataSets[j].title # f.title
              /\ dataSets[j].polaridade # f.polaridade

\* C6: a goal with no "2025" record has as 2025 expected value its 2024
\* expected value, whatever that value is, or "N/A" without a 2024 record;
\* its 2025 annual result and sub-period results "1", "2", "3" are "S/N".
C6_Placeholder2025 ==
    loaded =>
        \A i \in 1..Len(activeData) :
            LET g == activeData[i]
            IN  RecordsOf(g.id, "2025") = {} =>
                   /\ g.yearly_data["2025"].esperado =
                         IF RecordsOf(g.id, "2024") # {}
                         THEN g.yearly_data["2024"].esperado
                         ELSE s_NA_slash
                   /\ g.yearly_data["2025"].resultado = s_SN_upper
                   /\ g.yearly_data["2025"].quadrimestres
                         = [k \in {"1", "2", "3"} |-> s_SN_upper]

RawYears == { dataSets[i].year : i \in 1..Len(dataSets) }
LastRecordOf(id, year) ==
    dataSets[CHOOSE k \in RecordsOf(id, year) : \A j \in RecordsOf(id, year) : j <= k]

\* the YearRecord the fields of a raw record make
YearRecordOf(rec) ==
    [esperado      |-> rec.esperado,
     resultado     |-> rec.resultado,
     quadrimestres |-> IF rec.quadrimestres.t = "object" THEN rec.quadrimestres.f
                       ELSE [k \in {} |-> rec.resultado]]

\* the registry as the two passes leave it, before the 2025 placeholder
AfterSecondPass == secondPass(dataSets, Len(dataSets), firstPass(dataSets, Len(dataSets)))

CountSum(counts) == counts["Alcancada"] + counts["Nao Alcancada"] + counts["Outro"]
ChartYearSet == { ChartYears[i] : i \in 1..Len(ChartYears) }

\* the goals a year's chart is drawn from, under the selected filters
ChartSet(y) == filteredForChart(currentFilteredData, y, quadrimestreFilter, statusFilter)

\* C7 as stated: for every chart year and period the three counts sum to
\* the number of goals in the filtered set, also when a goal of the set has
\* no record for the chart year.
C7_CountsSumToFilteredSet ==
    loaded => \A y \in ChartYearSet : CountSum(yearCharts[y]) = Len(ChartSet(y))

\* C7 amended: the three counts sum to the number of goals of the filtered
\* set that have a record for the chart year.
C7_CountsSumToGoalsWithRecord ==
    loaded =>
        \A y \in ChartYearSet :
            CountSum(yearCharts[y]) =
                Cardinality({ i \in 1..Len(ChartSet(y)) : hasYear(ChartSet(y)[i], y) })

\* two goals in the filtered set, one of them without a record for the
\* chart year, under a sub-period selection
C7_Witness ==
    /\ loaded /\ quadrimestreFilter # "anual"
    /\ \E y \in ChartYearSet :
          /\ Len(ChartSet(y)) = 2
          /\ hasYear(ChartSet(y)[1], y) /\ ~hasYear(ChartSet(y)[2], y)
          /\ CountSum(yearCharts[y]) = 1

(***************************************************************************)
(* Properties of the page and the modal                                    *)
(***************************************************************************)
\* the result the claim resolves for a year record and a period selection;
\* a key whose value is undefined reads as absent
Resolved(yearData, period) ==
    IF period # "anual" /\ period \in DOMAIN yearData.quadrimestres
       /\ yearData.quadrimestres[period] # [t |-> "undefined"]
    THEN yearData.quadrimestres[period]
    ELSE yearData.resultado

\* C12: the result the charts, the goal cards and the modal classify is the
\* sub-period value when the selected sub-period has one in the year's
\* mapping, and the annual result when it has none, when the record had no
\* mapping, and under the annual selection.
C12_SubPeriodFallback ==
    loaded =>
        /\ \A i \in 1..Len(activeData) : \A y \in DOMAIN activeData[i].yearly_data :
              chartResult(activeData[i].yearly_data[y], quadrimestreFilter)
                 = Resolved(activeData[i].yearly_data[y], quadrimestreFilter)
        /\ \A i \in 1..Len(goalsGrid) :
              goalsGrid[i].result
                 = Resolved(goalOfCard(goalsGrid[i]).yearly_data[yearFilter], quadrimestreFilter)
        /\ modalWrapper.kind = "detail" =>
              modalWrapper.result
                 = Resolved(goalOfModal.yearly_data[modalWrapper.year], modalWrapper.period)

\* the modal and the card of a goal whose 2023 record has the sub-periods 1
\* and 2 only, under the selection of sub-period 3
C12_Witness ==
    /\ loaded /\ quadrimestreFilter = "3" /\ yearFilter = "2023"
    /\ modalWrapper.kind = "detail"
    /\ "3" \notin DOMAIN goalOfModal.yearly_data["2023"].quadrimestres
    /\ "1" \in DOMAIN goalOfModal.yearly_data["2023"].quadrimestres
    /\ modalWrapper.result = goalOfModal.yearly_data["2023"].resultado
    /\ \E i \in 1..Len(goalsGrid) :
          /\ goalsGrid[i].id = modalWrapper.goal
          /\ goalsGrid[i].result = modalWrapper.result

C19_PolarityAgreement ==
    /\ modalWrapper.kind = "detail" =>
          ((modalWrapper.polaridade = "Meta de reducao") <=> IsMenor(goalOfModal))
    /\ \A i \in 1..Len(pending) :
          pending[i].fn = "analysis" =>
             ((pending[i].polaridade = "Quanto menor, melhor")
                 <=> IsMenor(goalOfCard([id |-> pending[i].goal])))

\* C20: generateActionPlan is only called with the analysis text of its own
\* goal, and the action-plan button of a modal never carries the analysis
\* text of another goal.
C20_ActionPlanOfSameGoal ==
    /\ lastActionPlan.kind = "call" =>
          lastActionPlan.analysisText = [kind |-> "text", goal |-> lastActionPlan.goal]
    /\ (modalWrapper.kind = "detail" /\ actionPlanBtn.analysisText.kind = "text")
          => actionPlanBtn.analysisText.goal = modalWrapper.goal

\* C21: the generate-analysis button that launched a call stays disabled
\* while the call is in flight and is enabled again when the call settles,
\* with a text or with a failure; the action-plan button is un-hidden and
\* given the text exactly when the call succeeded, and after a failure the
\* content container of the call shows the error and the action-plan button
\* is left as it was.
AnalysisSettled == Len(pending') < Len(pending) /\ settled'.fn = "analysis"
TextOf(call) ==
    IF call.outcome = "text" THEN [kind |-> "text", goal |-> call.goal]
    ELSE [kind |-> "empty"]
C21_GenerateButtonLifecycle ==
    /\ [](\A i \in 1..Len(pending) :
             pending[i].fn = "analysis" /\ pending[i].attached => analysisBtnDisabled)
    /\ [][AnalysisSettled =>
             /\ settled'.attached => ~analysisBtnDisabled'
             /\ settled'.outcome = "error" =>
                    /\ actionPlanBtn' = actionPlanBtn
                    /\ settled'.attached => analysisContent' = [kind |-> "error"]
             /\ settled'.outcome # "error" =>
                    /\ ~actionPlanBtn'.hidden
                    /\ actionPlanBtn'.analysisText = TextOf(settled')
                    /\ settled'.attached => analysisContent' = TextOf(settled')]_vars
C21_Witness ==
    /\ settled.fn = "analysis" /\ settled.attached /\ settled.outcome = "error"
    /\ ~analysisBtnDisabled
    /\ analysisContent = [kind |-> "error"]
    /\ actionPlanBtn.hidden

\* C23: the status filter restricts the charts only.  Under every status
\* selection the goal cards are the goals of the registry that match the
\* search, the directive and the objective and have a record for the
\* selected year, and a change of the status selection leaves the cards as
\* they are; under a selection other than "todos" the chart of each year
\* counts the matching goals whose simplified status for that year and
\* sub-period is the selected one, and its two other buckets are zero.
MatchesFilters(g) ==
    /\ \/ includes(toLowerCase(g.title), toLowerCase(searchInput))
       \/ includes(NatToString(g.id), toLowerCase(searchInput))
       \/ includes(s_meta \o NatToString(g.id), toLowerCase(searchInput))
    /\ diretrizFilter \in {"todas", g.diretriz}
    /\ objetivoFilter \in {"todos", g.objetivo}
SimplifiedOf(g, y) ==
    getSimplifiedStatus(getStatus(g, Resolved(g.yearly_data[y], quadrimestreFilter),
                                  g.yearly_data[y].esperado).text)
C23_StatusFilterChartsOnly ==
    /\ [](loaded =>
            /\ { goalsGrid[i].id : i \in 1..Len(goalsGrid) }
                  = { activeData[k].id : k \in { j \in 1..Len(activeData) :
                         /\ MatchesFilters(activeData[j])
                         /\ yearFilter \in DOMAIN activeData[j].yearly_data } }
            /\ \A i, j \in 1..Len(goalsGrid) : goalsGrid[i].id = goalsGrid[j].id => i = j
            /\ statusFilter # "todos" =>
                  \A n \in 1..Len(ChartYears) :
                     \A b \in {"Alcancada", "Nao Alcancada", "Outro"} :
                        yearCharts[ChartYears[n]][b] =
                           IF b # statusFilter THEN 0
                           ELSE Cardinality({ k \in 1..Len(activeData) :
                                   /\ MatchesFilters(activeData[k])
                                   /\ ChartYears[n] \in DOMAIN activeData[k].yearly_data
                                   /\ SimplifiedOf(activeData[k], ChartYears[n]) = b }))
    /\ [][(loaded /\ statusFilter' # statusFilter) => goalsGrid' = goalsGrid]_vars

\* under the selection "Alcancada" a card of a goal with another status is
\* shown, while the chart of a year counts a goal
C23_Witness ==
    /\ loaded /\ statusFilter = "Alcancada"
    /\ \E i \in 1..Len(goalsGrid) :
          getSimplifiedStatus(goalsGrid[i].statusInfo.text) # "Alcancada"
    /\ \E n \in 1..Len(ChartYears) : yearCharts[ChartYears[n]]["Alcancada"] > 0
    /\ \E n \in 1..Len(ChartYears) : yearCharts[ChartYears[n]]["Alcancada"] = 0

====
